---- MODULE Spec2Model ----
(***************************************************************************)
(* PS/2 keyboard driver of the x86_pc platform                             *)
(* (modules/axhal/src/platform/x86_pc/ps2_controller.rs).                  *)
(*                                                                         *)
(* The driver state KEYBOARD sits behind a SpinNoIrq lock.  Every          *)
(* KEYBOARD.lock() in the source is one critical section, and every        *)
(* critical section is one action here: getchar is a single action, and    *)
(* the interrupt handler is the chain port read, check_status_n_change,    *)
(* the two modifier reads of decode, and the buffer write.  getchar (on    *)
(* another core) may run between any two links of that chain.              *)
(*                                                                         *)
(* A second set of actions (lk_...) makes the lock itself visible: masking *)
(* the interrupts of the calling CPU, spinning for the lock bit, the       *)
(* section, and the release.  It is used where a property is about the     *)
(* lock rather than about what the sections do.                            *)
(*                                                                         *)
(* Option<u8> is modelled as a sequence: None is <<>>, Some(x) is <<x>>.   *)
(***************************************************************************)
EXTENDS Integers, Sequences, FiniteSets, TLC

VARIABLES
    registered,     \* init() has registered the handler for KEYBOARD_IRQ
    KEYBOARD,       \* the KeyBoard behind the lock: buffer and the latches
    pc,             \* position of keyboard_intrrupt_handler
    scancode,       \* handler local: the byte read from the data port
    l_is_shifted,   \* decode local is_shifted
    l_is_capslock,  \* decode local is_capslock
    c,              \* result of decode(scancode)
    ret,            \* result of the most recent getchar call
    pending,        \* scancodes the keyboard has yet to deliver
    received,       \* history: scancodes read from the port, in order
    decoded,        \* history: units decode produced, with buffer-full flag
    returned,       \* history: units getchar has returned, in order
    decodes,        \* history: (scancode, latches, result) of every decode
    indexed,        \* history: the KEY_MAP indices decode has used
    seq_KEYBOARD,   \* reference: KEYBOARD when each callback is one section
    seq_ret,        \* reference: getchar result when each callback is one
    locked,         \* the lock bit of the SpinNoIrq around KEYBOARD
    irq_enabled,    \* per CPU: interrupts are delivered
    irq_cpu,        \* the CPU the running handler was delivered to
    hsec,           \* the handler holds the lock
    gpc             \* position of getchar: "idle", "spin" or "locked"

\* the driver and the histories
drv == <<registered, KEYBOARD, pc, scancode, l_is_shifted, l_is_capslock, c,
         ret, pending, received, decoded, returned, decodes, indexed,
         seq_KEYBOARD, seq_ret>>

\* the lock, the interrupt flags and who is where around the lock
lockvars == <<locked, irq_enabled, irq_cpu, hsec, gpc>>

vars == <<registered, KEYBOARD, pc, scancode, l_is_shifted, l_is_capslock, c,
          ret, pending, received, decoded, returned, decodes, indexed,
          seq_KEYBOARD, seq_ret, locked, irq_enabled, irq_cpu, hsec, gpc>>

-----------------------------------------------------------------------------
(* Bounds of the model *)

\* scancodes of a free keystroke sequence
MaxIrqs == 3

\* shift make/break events of a shift session
MaxShifts == 4

\* scancodes that follow a burst
MaxTail == 2

\* keys of the short bursts written into an empty buffer
MaxShort == 2

-----------------------------------------------------------------------------
(* Program constants *)

BUFFER_SIZE == 128

\* arms of the match in check_status_n_change
LSHIFT_MAKE == 42
RSHIFT_MAKE == 54
CAPS_MAKE == 58
LSHIFT_BREAK == 170

\* last scancode of the match arm 0..=0x5D in decode
TABLE_LAST == 93

\* break codes (make code + 0x80) the match in check_status_n_change has no
\* arm for
RSHIFT_BREAK == RSHIFT_MAKE + 128

CAPS_BREAK == CAPS_MAKE + 128

U8 == 0..255

None == <<>>

Some(x) == <<x>>

KEY_MAP == <<
    [ascii1 |-> 0, ascii2 |-> 0, scode |-> 0, kcode |-> 0],
    [ascii1 |-> 0, ascii2 |-> 0, scode |-> 1, kcode |-> 27],
    [ascii1 |-> 49, ascii2 |-> 33, scode |-> 2, kcode |-> 49],
    [ascii1 |-> 50, ascii2 |-> 64, scode |-> 3, kcode |-> 50],
    [ascii1 |-> 51, ascii2 |-> 35, scode |-> 4, kcode |-> 51],
    [ascii1 |-> 52, ascii2 |-> 36, scode |-> 5, kcode |-> 52],
    [ascii1 |-> 53, ascii2 |-> 37, scode |-> 6, kcode |-> 53],
    [ascii1 |-> 54, ascii2 |-> 94, scode |-> 7, kcode |-> 54],
    [ascii1 |-> 55, ascii2 |-> 38, scode |-> 8, kcode |-> 55],
    [ascii1 |-> 56, ascii2 |-> 42, scode |-> 9, kcode |-> 56],
    [ascii1 |-> 57, ascii2 |-> 40, scode |-> 10, kcode |-> 57],
    [ascii1 |-> 48, ascii2 |-> 41, scode |-> 11, kcode |-> 48],
    [ascii1 |-> 45, ascii2 |-> 95, scode |-> 12, kcode |-> 189],
    [ascii1 |-> 61, ascii2 |-> 43, scode |-> 13, kcode |-> 187],
    [ascii1 |-> 8, ascii2 |-> 8, scode |-> 14, kcode |-> 8],
    [ascii1 |-> 0, ascii2 |-> 0, scode |-> 15, kcode |-> 9],
    [ascii1 |-> 113, ascii2 |-> 81, scode |-> 16, kcode |-> 81],
    [ascii1 |-> 119, ascii2 |-> 87, scode |-> 17, kcode |-> 87],
    [ascii1 |-> 101, ascii2 |-> 69, scode |-> 18, kcode |-> 69],
    [ascii1 |-> 114, ascii2 |-> 82, scode |-> 19, kcode |-> 82],
    [ascii1 |-> 116, ascii2 |-> 84, scode |-> 20, kcode |-> 84],
    [ascii1 |-> 121, ascii2 |-> 89, scode |-> 21, kcode |-> 89],
    [ascii1 |-> 117, ascii2 |-> 85, scode |-> 22, kcode |-> 85],
    [ascii1 |-> 105, ascii2 |-> 73, scode |-> 23, kcode |-> 73],
    [ascii1 |-> 111, ascii2 |-> 79, scode |-> 24, kcode |-> 79],
    [ascii1 |-> 112, ascii2 |-> 80, scode |-> 25, kcode |-> 80],
    [ascii1 |-> 91, ascii2 |-> 123, scode |-> 26, kcode |-> 219],
    [ascii1 |-> 93, ascii2 |-> 125, scode |-> 27, kcode |-> 221],
    [ascii1 |-> 10, ascii2 |-> 10, scode |-> 28, kcode |-> 13],
    [ascii1 |-> 0, ascii2 |-> 0, scode |-> 29, kcode |-> 17],
    [ascii1 |-> 97, ascii2 |-> 65, scode |-> 30, kcode |-> 65],
    [ascii1 |-> 115, ascii2 |-> 83, scode |-> 31, kcode |-> 83],
    [ascii1 |-> 100, ascii2 |-> 68, scode |-> 32, kcode |-> 68],
    [ascii1 |-> 102, ascii2 |-> 70, scode |-> 33, kcode |-> 70],
    [ascii1 |-> 103, ascii2 |-> 71, scode |-> 34, kcode |-> 71],
    [ascii1 |-> 104, ascii2 |-> 72, scode |-> 35, kcode |-> 72],
    [ascii1 |-> 106, ascii2 |-> 74, scode |-> 36, kcode |-> 74],
    [ascii1 |-> 107, ascii2 |-> 75, scode |-> 37, kcode |-> 75],
    [ascii1 |-> 108, ascii2 |-> 76, scode |-> 38, kcode |-> 76],
    [ascii1 |-> 59, ascii2 |-> 58, scode |-> 39, kcode |-> 186],
    [ascii1 |-> 39, ascii2 |-> 34, scode |-> 40, kcode |-> 222],
    [ascii1 |-> 96, ascii2 |-> 126, scode |-> 41, kcode |-> 192],
    [ascii1 |-> 0, ascii2 |-> 0, scode |-> 42, kcode |-> 16],
    [ascii1 |-> 92, ascii2 |-> 124, scode |-> 43, kcode |-> 220],
    [ascii1 |-> 122, ascii2 |-> 90, scode |-> 44, kcode |-> 90],
    [ascii1 |-> 120, ascii2 |-> 88, scode |-> 45, kcode |-> 88],
    [ascii1 |-> 99, ascii2 |-> 67, scode |-> 46, kcode |-> 67],
    [ascii1 |-> 118, ascii2 |-> 86, scode |-> 47, kcode |-> 86],
    [ascii1 |-> 98, ascii2 |-> 66, scode |-> 48, kcode |-> 66],
    [ascii1 |-> 110, ascii2 |-> 78, scode |-> 49, kcode |-> 78],
    [ascii1 |-> 109, ascii2 |-> 77, scode |-> 50, kcode |-> 77],
    [ascii1 |-> 44, ascii2 |-> 60, scode |-> 51, kcode |-> 188],
    [ascii1 |-> 46, ascii2 |-> 62, scode |-> 52, kcode |-> 190],
    [ascii1 |-> 47, ascii2 |-> 63, scode |-> 53, kcode |-> 191],
    [ascii1 |-> 0, ascii2 |-> 0, scode |-> 54, kcode |-> 16],
    [ascii1 |-> 42, ascii2 |-> 42, scode |-> 55, kcode |-> 106],
    [ascii1 |-> 0, ascii2 |-> 0, scode |-> 56, kcode |-> 18],
    [ascii1 |-> 32, ascii2 |-> 0, scode |-> 57, kcode |-> 32],
    [ascii1 |-> 0, ascii2 |-> 0, scode |-> 58, kcode |-> 20],
    [ascii1 |-> 0, ascii2 |-> 0, scode |-> 59, kcode |-> 112],
    [ascii1 |-> 0, ascii2 |-> 0, scode |-> 60, kcode |-> 113],
    [ascii1 |-> 0, ascii2 |-> 0, scode |-> 61, kcode |-> 114],
    [ascii1 |-> 0, ascii2 |-> 0, scode |-> 62, kcode |-> 115],
    [ascii1 |-> 0, ascii2 |-> 0, scode |-> 63, kcode |-> 116],
    [ascii1 |-> 0, ascii2 |-> 0, scode |-> 64, kcode |-> 117],
    [ascii1 |-> 0, ascii2 |-> 0, scode |-> 65, kcode |-> 118],
    [ascii1 |-> 0, ascii2 |-> 0, scode |-> 66, kcode |-> 119],
    [ascii1 |-> 0, ascii2 |-> 0, scode |-> 67, kcode |-> 120],
    [ascii1 |-> 0, ascii2 |-> 0, scode |-> 68, kcode |-> 121],
    [ascii1 |-> 0, ascii2 |-> 0, scode |-> 69, kcode |-> 144],
    [ascii1 |-> 0, ascii2 |-> 0, scode |-> 70, kcode |-> 145],
    [ascii1 |-> 0, ascii2 |-> 0, scode |-> 71, kcode |-> 36],
    [ascii1 |-> 0, ascii2 |-> 0, scode |-> 72, kcode |-> 38],
    [ascii1 |-> 0, ascii2 |-> 0, scode |-> 73, kcode |-> 33],
    [ascii1 |-> 0, ascii2 |-> 0, scode |-> 74, kcode |-> 109],
    [ascii1 |-> 0, ascii2 |-> 0, scode |-> 75, kcode |-> 37],
    [ascii1 |-> 0, ascii2 |-> 0, scode |-> 76, kcode |-> 12],
    [ascii1 |-> 0, ascii2 |-> 0, scode |-> 77, kcode |-> 39],
    [ascii1 |-> 0, ascii2 |-> 0, scode |-> 78, kcode |-> 107],
    [ascii1 |-> 0, ascii2 |-> 0, scode |-> 79, kcode |-> 35],
    [ascii1 |-> 0, ascii2 |-> 0, scode |-> 80, kcode |-> 40],
    [ascii1 |-> 0, ascii2 |-> 0, scode |-> 81, kcode |-> 34],
    [ascii1 |-> 0, ascii2 |-> 0, scode |-> 82, kcode |-> 45],
    [ascii1 |-> 127, ascii2 |-> 127, scode |-> 83, kcode |-> 46],
    [ascii1 |-> 10, ascii2 |-> 10, scode |-> 84, kcode |-> 13],
    [ascii1 |-> 0, ascii2 |-> 0, scode |-> 0, kcode |-> 0],
    [ascii1 |-> 0, ascii2 |-> 0, scode |-> 0, kcode |-> 0],
    [ascii1 |-> 0, ascii2 |-> 0, scode |-> 87, kcode |-> 122],
    [ascii1 |-> 0, ascii2 |-> 0, scode |-> 88, kcode |-> 123],
    [ascii1 |-> 0, ascii2 |-> 0, scode |-> 0, kcode |-> 0],
    [ascii1 |-> 0, ascii2 |-> 0, scode |-> 0, kcode |-> 0],
    [ascii1 |-> 0, ascii2 |-> 0, scode |-> 91, kcode |-> 91],
    [ascii1 |-> 0, ascii2 |-> 0, scode |-> 92, kcode |-> 92],
    [ascii1 |-> 0, ascii2 |-> 0, scode |-> 93, kcode |-> 93]
>>

-----------------------------------------------------------------------------
(* RingBuffer *)

RingBuffer_new ==
    [head |-> 0, tail |-> 0, inner |-> [i \in 0..(BUFFER_SIZE - 1) |-> 0]]

\* read without the emptiness test
read_unchecked(self) ==
    LET tmp_pos == self.head IN
    [ret  |-> Some(self.inner[tmp_pos]),
     self |-> [self EXCEPT !.head = (self.head + 1) % BUFFER_SIZE]]

\* read that holds the last unit back until another one arrives
read_lazy(self) ==
    IF self.head = self.tail \/ (self.head + 1) % BUFFER_SIZE = self.tail
    THEN [ret |-> None, self |-> self]
    ELSE LET tmp_pos == self.head IN
         [ret  |-> Some(self.inner[tmp_pos]),
          self |-> [self EXCEPT !.head = (self.head + 1) % BUFFER_SIZE]]

\* read that clears the slot it has read
read_take(self) ==
    IF self.head = self.tail
    THEN [ret |-> None, self |-> self]
    ELSE LET tmp_pos == self.head IN
         [ret  |-> Some(self.inner[tmp_pos]),
          self |-> [self EXCEPT !.inner[tmp_pos] = 0,
                                !.head = (self.head + 1) % BUFFER_SIZE]]

\* read whose head is advanced without the wrap-around
read_no_wrap(self) ==
    IF self.head = self.tail
    THEN [ret |-> None, self |-> self]
    ELSE LET tmp_pos == self.head IN
         [ret  |-> Some(self.inner[tmp_pos]),
          self |-> [self EXCEPT !.head = self.head + 1]]

\* RingBuffer::read: the returned Option and the buffer afterwards
read(self) ==
    IF self.head = self.tail
    THEN [ret |-> None, self |-> self]
    ELSE LET tmp_pos == self.head IN
         [ret  |-> Some(self.inner[tmp_pos]),
          self |-> [self EXCEPT !.head = (self.head + 1) % BUFFER_SIZE]]

\* write without the fullness test: the newest unit overwrites
write_overwrite(self, data) ==
    LET tmp_pos == (self.tail + 1) % BUFFER_SIZE IN
    [self EXCEPT !.inner[self.tail] = data, !.tail = tmp_pos]

\* write that makes room in a full buffer by giving up the oldest unit
write_drop_oldest(self, data) ==
    LET tmp_pos == (self.tail + 1) % BUFFER_SIZE IN
    IF tmp_pos = self.head
    THEN [self EXCEPT !.inner[self.tail] = data, !.tail = tmp_pos,
                      !.head = (self.head + 1) % BUFFER_SIZE]
    ELSE [self EXCEPT !.inner[self.tail] = data, !.tail = tmp_pos]

\* write whose tail wraps one slot early
write_wrap_early(self, data) ==
    LET tmp_pos == (self.tail + 1) % (BUFFER_SIZE - 1) IN
    IF tmp_pos = self.head
    THEN self
    ELSE [self EXCEPT !.inner[self.tail] = data, !.tail = tmp_pos]

\* write that calls the buffer full one slot early
write_early_full(self, data) ==
    LET tmp_pos == (self.tail + 1) % BUFFER_SIZE IN
    IF tmp_pos = self.head \/ (tmp_pos + 1) % BUFFER_SIZE = self.head
    THEN self
    ELSE [self EXCEPT !.inner[self.tail] = data, !.tail = tmp_pos]

\* RingBuffer::write: the buffer afterwards
write(self, data) ==
    LET tmp_pos == (self.tail + 1) % BUFFER_SIZE IN
    IF tmp_pos = self.head
    THEN self
    ELSE [self EXCEPT !.inner[self.tail] = data, !.tail = tmp_pos]

-----------------------------------------------------------------------------
(* KeyBoard *)

KeyBoard_new ==
    [buffer |-> RingBuffer_new,
     is_capslock |-> FALSE,
     is_shifted_l |-> FALSE,
     is_shifted_r |-> FALSE]

is_shifted(self) == self.is_shifted_l \/ self.is_shifted_r

is_capslock(self) == self.is_capslock

\* the caps-lock arm sets the latch instead of toggling it
check_status_n_change_set(self, sc) ==
    IF sc = LSHIFT_MAKE THEN [self EXCEPT !.is_shifted_l = TRUE]
    ELSE IF sc = RSHIFT_MAKE THEN [self EXCEPT !.is_shifted_r = TRUE]
    ELSE IF sc = CAPS_MAKE THEN [self EXCEPT !.is_capslock = TRUE]
    ELSE IF sc = LSHIFT_BREAK THEN [self EXCEPT !.is_shifted_l = FALSE]
    ELSE self

\* The match takes the first arm that fits, so the second 0x36 arm is dead.
check_status_n_change(self, sc) ==
    IF sc = LSHIFT_MAKE THEN [self EXCEPT !.is_shifted_l = TRUE]
    ELSE IF sc = RSHIFT_MAKE THEN [self EXCEPT !.is_shifted_r = TRUE]
    ELSE IF sc = CAPS_MAKE THEN [self EXCEPT !.is_capslock = ~self.is_capslock]
    ELSE IF sc = LSHIFT_BREAK THEN [self EXCEPT !.is_shifted_l = FALSE]
    ELSE IF sc = RSHIFT_MAKE THEN [self EXCEPT !.is_shifted_r = FALSE]
    ELSE self

\* getchar that also releases the modifier latches
KeyBoard_getchar_release(self) ==
    LET r == read(self.buffer) IN
    [ret |-> r.ret, self |-> [KeyBoard_new EXCEPT !.buffer = r.self]]

\* KeyBoard::getchar: the returned Option and the keyboard afterwards
KeyBoard_getchar(self) ==
    LET r == read(self.buffer) IN
    [ret |-> r.ret, self |-> [self EXCEPT !.buffer = r.self]]

\* decode with "or" in place of "xor"
decode_or(sc, shifted, capslock) ==
    IF sc \in 0..TABLE_LAST
    THEN IF shifted \/ capslock
         THEN Some(KEY_MAP[sc + 1].ascii2)
         ELSE Some(KEY_MAP[sc + 1].ascii1)
    ELSE None

\* decode whose fallback arm yields the sentinel byte instead of None
decode_fallback(sc, shifted, capslock) ==
    IF sc \in 0..TABLE_LAST
    THEN IF shifted # capslock
         THEN Some(KEY_MAP[sc + 1].ascii2)
         ELSE Some(KEY_MAP[sc + 1].ascii1)
    ELSE Some(0)

\* decode that looks at the buffer: unshifted unless the buffer is empty
decode_peek(sc, shifted, capslock) ==
    IF sc \in 0..TABLE_LAST
    THEN IF shifted # capslock /\ KEYBOARD.buffer.head = KEYBOARD.buffer.tail
         THEN Some(KEY_MAP[sc + 1].ascii2)
         ELSE Some(KEY_MAP[sc + 1].ascii1)
    ELSE None

\* the match of decode, on the two modifier values decode has read
decode(sc, shifted, capslock) ==
    IF sc \in 0..TABLE_LAST
    THEN IF shifted # capslock
         THEN Some(KEY_MAP[sc + 1].ascii2)
         ELSE Some(KEY_MAP[sc + 1].ascii1)
    ELSE None

-----------------------------------------------------------------------------
(* Inputs *)

SeqsUpTo(S, n) == UNION {[1..k -> S] : k \in 0..n}

\* the scancodes check_status_n_change has an arm for, and the two break
\* codes of a modifier key it has none for
ModCodes == {LSHIFT_MAKE, LSHIFT_BREAK, RSHIFT_MAKE, RSHIFT_BREAK, CAPS_MAKE, CAPS_BREAK}

\* '1' and 'a': a digit key and a letter key
KeyCodes == {2, 30}

\* free keystroke sequences: modifier events around ordinary keys
KeySequences == SeqsUpTo(ModCodes \cup KeyCodes, MaxIrqs)

\* shift sessions: presses and releases of the two shift keys, then a key
ShiftSessions ==
    {p \o <<k>> :
        p \in SeqsUpTo({LSHIFT_MAKE, LSHIFT_BREAK, RSHIFT_MAKE, RSHIFT_BREAK},
                       MaxShifts),
        k \in KeyCodes}

\* shortest scancode prefixes reaching each of the eight latch states
LatchPrefixes ==
    {<<>>, <<LSHIFT_MAKE>>, <<RSHIFT_MAKE>>, <<CAPS_MAKE>>,
     <<LSHIFT_MAKE, RSHIFT_MAKE>>, <<LSHIFT_MAKE, CAPS_MAKE>>,
     <<RSHIFT_MAKE, CAPS_MAKE>>, <<LSHIFT_MAKE, RSHIFT_MAKE, CAPS_MAKE>>}

\* every scancode byte in every latch state
AllCodeSequences == {p \o <<s>> : p \in LatchPrefixes, s \in U8}

\* a burst of n keystrokes on the keys 'q' .. 'p' (scancodes 0x10 .. 0x19)
Burst(n) == [k \in 1..n |-> 16 + ((k - 1) % 10)]

\* a burst that fills the buffer, then a few more scancodes
BurstSequences ==
    {Burst(BUFFER_SIZE - 1) \o t : t \in SeqsUpTo({30, LSHIFT_BREAK}, MaxTail)}

-----------------------------------------------------------------------------
(* Initial states *)

\* the consumer runs on CPU 0; the keyboard IRQ is delivered to either CPU
CPUS == {0, 1}

\* the state after construction (lazy_static KEYBOARD, handler not running)
InitWith(inputs) ==
    /\ registered = FALSE
    /\ KEYBOARD = KeyBoard_new
    /\ pc = "idle"
    /\ scancode = 0
    /\ l_is_shifted = FALSE
    /\ l_is_capslock = FALSE
    /\ c = None
    /\ ret = None
    /\ pending \in inputs
    /\ received = <<>>
    /\ decoded = <<>>
    /\ returned = <<>>
    /\ decodes = {}
    /\ indexed = {}
    /\ seq_KEYBOARD = KeyBoard_new
    /\ seq_ret = None
    /\ locked = FALSE
    /\ irq_enabled = [cpu \in CPUS |-> TRUE]
    /\ irq_cpu = 0
    /\ hsec = FALSE
    /\ gpc = "idle"

Init ==
    InitWith(KeySequences \cup ShiftSessions \cup AllCodeSequences)

InitRing == InitWith(BurstSequences)

\* every scancode byte in every latch state, and the bursts that take head
\* and tail around the buffer, one of them followed by the last scancode of
\* KEY_MAP and the first scancode beyond it
InitBounds ==
    InitWith(AllCodeSequences \cup BurstSequences
               \cup {Burst(BUFFER_SIZE - 1) \o <<TABLE_LAST, TABLE_LAST + 1>>})

\* 'a', left-shift make and left-shift break
LockCodes == {30, LSHIFT_MAKE, LSHIFT_BREAK}

InitLock == InitWith(SeqsUpTo(LockCodes, MaxIrqs))

\* the unit of the k-th key of a burst typed with no modifier
BurstUnit(k) == KEY_MAP[Burst(k)[k] + 1].ascii1

\* the state SpecRing reaches when a burst has filled the buffer and
\* nothing has been read: 127 units unread, head 0, tail 127
FullBufferState(inputs) ==
    /\ registered = TRUE
    /\ KEYBOARD =
         [KeyBoard_new EXCEPT !.buffer =
            [head |-> 0,
             tail |-> BUFFER_SIZE - 1,
             inner |-> [i \in 0..(BUFFER_SIZE - 1) |->
                          IF i < BUFFER_SIZE - 1 THEN BurstUnit(i + 1) ELSE 0]]]
    /\ pc = "idle"
    /\ scancode = 0
    /\ l_is_shifted = FALSE
    /\ l_is_capslock = FALSE
    /\ c = None
    /\ ret = None
    /\ pending \in inputs
    /\ received = Burst(BUFFER_SIZE - 1)
    /\ decoded = [k \in 1..(BUFFER_SIZE - 1) |->
                    [unit |-> BurstUnit(k), full |-> FALSE]]
    /\ returned = <<>>
    /\ decodes = {[sc |-> Burst(k)[k], l |-> FALSE, r |-> FALSE,
                   caps |-> FALSE, result |-> Some(BurstUnit(k))] :
                     k \in 1..(BUFFER_SIZE - 1)}
    /\ indexed = {Burst(k)[k] : k \in 1..(BUFFER_SIZE - 1)}
    /\ seq_KEYBOARD = KEYBOARD
    /\ seq_ret = None
    /\ locked = FALSE
    /\ irq_enabled = [cpu \in CPUS |-> TRUE]
    /\ irq_cpu = 0
    /\ hsec = FALSE
    /\ gpc = "idle"

\* n printable keys that continue the burst after its first h keys
BurstFrom(h, n) == [k \in 1..n |-> Burst(h + k)[h + k]]

\* the head indexes from which a whole burst is written and read
StartHeads == {0, 1, BUFFER_SIZE - 2, BUFFER_SIZE - 1}

\* the bursts to come at an empty buffer whose head is h: a few keys from
\* every index, a burst that fills the buffer from the indexes of StartHeads
FillBursts(h) ==
    {BurstFrom(h, n) : n \in 0..MaxShort}
        \cup (IF h \in StartHeads THEN {BurstFrom(h, BUFFER_SIZE - 1)} ELSE {})

\* the state after h keys of a burst have been written and read: the buffer
\* is empty at index h and the slots before h hold the units already read
EmptyBufferState(h) ==
    /\ registered = TRUE
    /\ KEYBOARD =
         [KeyBoard_new EXCEPT !.buffer =
            [head |-> h,
             tail |-> h,
             inner |-> [i \in 0..(BUFFER_SIZE - 1) |->
                          IF i < h THEN BurstUnit(i + 1) ELSE 0]]]
    /\ pc = "idle"
    /\ scancode = 0
    /\ l_is_shifted = FALSE
    /\ l_is_capslock = FALSE
    /\ c = None
    /\ ret = Some(BurstUnit(h))
    /\ pending \in FillBursts(h)
    /\ received = Burst(h)
    /\ decoded = [k \in 1..h |-> [unit |-> BurstUnit(k), full |-> FALSE]]
    /\ returned = [k \in 1..h |-> BurstUnit(k)]
    /\ decodes = {[sc |-> Burst(k)[k], l |-> FALSE, r |-> FALSE,
                   caps |-> FALSE, result |-> Some(BurstUnit(k))] :
                     k \in 1..h}
    /\ indexed = {Burst(k)[k] : k \in 1..h}
    /\ seq_KEYBOARD = KEYBOARD
    /\ seq_ret = ret
    /\ locked = FALSE
    /\ irq_enabled = [cpu \in CPUS |-> TRUE]
    /\ irq_cpu = 0
    /\ hsec = FALSE
    /\ gpc = "idle"

\* an empty buffer at any index: the state after construction, or the state
\* after h keys have come and gone
InitEmpty ==
    \/ InitWith(FillBursts(0))
    \/ \E h \in 1..(BUFFER_SIZE - 1) : EmptyBufferState(h)

\* the state after construction with a short sequence to come, or the
\* full buffer with one or two more keys to come
InitLive ==
    \/ InitWith(SeqsUpTo(LockCodes, MaxIrqs))
    \/ FullBufferState({<<30>>, <<30, 30>>})

-----------------------------------------------------------------------------
(* Operations: what each critical section does *)

\* is the buffer full: (tail + 1) mod C = head
IsFull(rb) == (rb.tail + 1) % BUFFER_SIZE = rb.head

\* the KEY_MAP index decode uses for a scancode, if it uses one
KeyIndex(sc) == IF sc \in 0..TABLE_LAST THEN {sc} ELSE {}

\* the whole callback on one keyboard state: update, decode, write
handler_atomic(self, sc) ==
    LET k == check_status_n_change(self, sc)
        r == decode(sc, is_shifted(k), is_capslock(k))
    IN  IF r # None THEN [k EXCEPT !.buffer = write(@, r[1])] ELSE k

\* init(): register the handler for the keyboard IRQ; called once
cs_init ==
    /\ ~registered
    /\ registered' = TRUE
    /\ UNCHANGED <<KEYBOARD, pc, scancode, l_is_shifted, l_is_capslock, c,
                   ret, pending, received, decoded, returned, decodes,
                   indexed, seq_KEYBOARD, seq_ret>>

\* let scancode: u8 = unsafe { port.read() };
cs_port_read ==
    /\ registered
    /\ pc = "idle"
    /\ pending # <<>>
    /\ scancode' = Head(pending)
    /\ pending' = Tail(pending)
    /\ received' = Append(received, Head(pending))
    /\ pc' = "check_status"
    /\ UNCHANGED <<registered, KEYBOARD, l_is_shifted, l_is_capslock, c,
                   ret, decoded, returned, decodes, indexed, seq_KEYBOARD,
                   seq_ret>>

\* KEYBOARD.lock().check_status_n_change(scancode);
cs_check_status ==
    /\ pc = "check_status"
    /\ KEYBOARD' = check_status_n_change(KEYBOARD, scancode)
    /\ pc' = "is_shifted"
    /\ UNCHANGED <<registered, scancode, l_is_shifted, l_is_capslock, c,
                   ret, pending, received, decoded, returned, decodes,
                   indexed, seq_KEYBOARD, seq_ret>>

\* decode: let is_shifted = KEYBOARD.lock().is_shifted();
cs_is_shifted ==
    /\ pc = "is_shifted"
    /\ l_is_shifted' = is_shifted(KEYBOARD)
    /\ pc' = "is_capslock"
    /\ UNCHANGED <<registered, KEYBOARD, scancode, l_is_capslock, c,
                   ret, pending, received, decoded, returned, decodes,
                   indexed, seq_KEYBOARD, seq_ret>>

\* decode: let is_capslock = KEYBOARD.lock().is_capslock(); match scancode
cs_is_capslock ==
    /\ pc = "is_capslock"
    /\ l_is_capslock' = is_capslock(KEYBOARD)
    /\ c' = decode(scancode, l_is_shifted, l_is_capslock')
    /\ pc' = "write"
    /\ decodes' = decodes \cup
                    {[sc |-> scancode, l |-> KEYBOARD.is_shifted_l,
                      r |-> KEYBOARD.is_shifted_r,
                      caps |-> KEYBOARD.is_capslock, result |-> c']}
    /\ indexed' = indexed \cup KeyIndex(scancode)
    /\ UNCHANGED <<registered, KEYBOARD, scancode, l_is_shifted,
                   ret, pending, received, decoded, returned, seq_KEYBOARD,
                   seq_ret>>

\* if let Some(c) = decode(scancode) { KEYBOARD.lock().buffer.write(c); }
\* and the return of the handler, where its locals die
cs_write ==
    /\ pc = "write"
    /\ IF c # None
       THEN /\ KEYBOARD' = [KEYBOARD EXCEPT !.buffer = write(@, c[1])]
            /\ decoded' = Append(decoded,
                            [unit |-> c[1], full |-> IsFull(KEYBOARD.buffer)])
       ELSE UNCHANGED <<KEYBOARD, decoded>>
    /\ seq_KEYBOARD' = handler_atomic(seq_KEYBOARD, scancode)
    /\ pc' = "idle"
    /\ scancode' = 0
    /\ l_is_shifted' = FALSE
    /\ l_is_capslock' = FALSE
    /\ c' = None
    /\ UNCHANGED <<registered, ret, pending, received, returned, decodes,
                   indexed, seq_ret>>

\* KEYBOARD.lock().getchar()
cs_getchar ==
    /\ LET r == KeyBoard_getchar(KEYBOARD) IN
       /\ KEYBOARD' = r.self
       /\ ret' = r.ret
       /\ returned' = IF r.ret # None THEN Append(returned, r.ret[1])
                                      ELSE returned
    /\ LET q == KeyBoard_getchar(seq_KEYBOARD) IN
       /\ seq_KEYBOARD' = q.self
       /\ seq_ret' = q.ret
    /\ UNCHANGED <<registered, pc, scancode, l_is_shifted, l_is_capslock, c,
                   pending, received, decoded, decodes, indexed>>

-----------------------------------------------------------------------------
(* The driver with every critical section as one step *)

init == cs_init /\ UNCHANGED lockvars

handler_port_read == cs_port_read /\ UNCHANGED lockvars

handler_check_status == cs_check_status /\ UNCHANGED lockvars

decode_is_shifted == cs_is_shifted /\ UNCHANGED lockvars

decode_is_capslock == cs_is_capslock /\ UNCHANGED lockvars

handler_write == cs_write /\ UNCHANGED lockvars

keyboard_intrrupt_handler ==
    \/ handler_port_read
    \/ handler_check_status
    \/ decode_is_shifted
    \/ decode_is_capslock
    \/ handler_write

\* pub fn getchar() -> Option<u8> { KEYBOARD.lock().getchar() }
getchar == cs_getchar /\ UNCHANGED lockvars

Next == init \/ keyboard_intrrupt_handler \/ getchar

Spec == Init /\ [][Next]_vars

SpecRing == InitRing /\ [][Next]_vars

SpecEmpty == InitEmpty /\ [][Next]_vars

SpecBounds == InitBounds /\ [][Next]_vars

\* the consumer keeps calling getchar: a call that would change the state
\* is not put off for ever.  Nothing obliges the keyboard to send scancodes
\* or the callback to go on.
SpecDeliver == InitLive /\ [][Next]_vars /\ WF_vars(getchar)

-----------------------------------------------------------------------------
(* The driver with the lock and the interrupt flag as steps of their own.   *)
(* SpinNoIrq is the spinlock crate's lock: lock() masks the interrupts of   *)
(* the calling CPU and then spins for the lock bit; dropping the guard      *)
(* clears the bit and restores the interrupt flag.  A CPU takes the         *)
(* keyboard interrupt only while its interrupts are enabled, and runs the   *)
(* handler with them masked until the handler returns.                      *)

\* the interrupt flag of a CPU running ordinary code, without SpinNoIrq
SpinNoIrq_lock_irq_kept(flag) == flag

\* the interrupt flag of the calling CPU once lock() has been entered
SpinNoIrq_lock_irq(flag) == FALSE

\* lock() leaves its spin loop when the lock bit is clear
SpinNoIrq_can_take(bit) == ~bit

\* the consumer executes unless the handler has preempted it on CPU 0
ConsumerRuns == ~(pc # "idle" /\ irq_cpu = 0)

\* the keyboard IRQ is taken by a CPU whose interrupts are enabled
lk_irq ==
    /\ \E cpu \in CPUS :
         /\ irq_enabled[cpu]
         /\ irq_cpu' = cpu
         /\ irq_enabled' = [irq_enabled EXCEPT ![cpu] = FALSE]
    /\ cs_port_read
    /\ UNCHANGED <<locked, hsec, gpc>>

\* KEYBOARD.lock() in the handler: spin until the lock bit is clear
lk_handler_lock ==
    /\ pc \in {"check_status", "is_shifted", "is_capslock", "write"}
    /\ pc = "write" => c # None
    /\ ~hsec
    /\ SpinNoIrq_can_take(locked)
    /\ locked' = TRUE
    /\ hsec' = TRUE
    /\ UNCHANGED <<drv, irq_enabled, irq_cpu, gpc>>

lk_check_status ==
    /\ hsec
    /\ cs_check_status
    /\ locked' = FALSE
    /\ hsec' = FALSE
    /\ UNCHANGED <<irq_enabled, irq_cpu, gpc>>

lk_is_shifted ==
    /\ hsec
    /\ cs_is_shifted
    /\ locked' = FALSE
    /\ hsec' = FALSE
    /\ UNCHANGED <<irq_enabled, irq_cpu, gpc>>

lk_is_capslock ==
    /\ hsec
    /\ cs_is_capslock
    /\ locked' = FALSE
    /\ hsec' = FALSE
    /\ UNCHANGED <<irq_enabled, irq_cpu, gpc>>

\* the buffer write under the lock, or no write at all, and the return
\* from the interrupt, which enables the interrupts of the CPU again
lk_write ==
    /\ c # None => hsec
    /\ cs_write
    /\ locked' = IF hsec THEN FALSE ELSE locked
    /\ hsec' = FALSE
    /\ irq_enabled' = [irq_enabled EXCEPT ![irq_cpu] = TRUE]
    /\ irq_cpu' = 0
    /\ UNCHANGED gpc

\* getchar is called: KEYBOARD.lock() masks the interrupts of CPU 0
lk_getchar_call ==
    /\ gpc = "idle"
    /\ ConsumerRuns
    /\ gpc' = "spin"
    /\ irq_enabled' = [irq_enabled EXCEPT ![0] = SpinNoIrq_lock_irq(@)]
    /\ UNCHANGED <<drv, locked, irq_cpu, hsec>>

\* KEYBOARD.lock() in getchar: spin until the lock bit is clear
lk_getchar_lock ==
    /\ gpc = "spin"
    /\ ConsumerRuns
    /\ SpinNoIrq_can_take(locked)
    /\ locked' = TRUE
    /\ gpc' = "locked"
    /\ UNCHANGED <<drv, irq_enabled, irq_cpu, hsec>>

\* a getchar that keeps the lock until the buffer holds a unit
lk_getchar_blocking ==
    /\ gpc = "locked"
    /\ ConsumerRuns
    /\ KEYBOARD.buffer.head # KEYBOARD.buffer.tail
    /\ cs_getchar
    /\ locked' = FALSE
    /\ gpc' = "idle"
    /\ irq_enabled' = [irq_enabled EXCEPT ![0] = TRUE]
    /\ UNCHANGED <<irq_cpu, hsec>>

\* the read under the lock, the drop of the guard and the return
lk_getchar ==
    /\ gpc = "locked"
    /\ ConsumerRuns
    /\ cs_getchar
    /\ locked' = FALSE
    /\ gpc' = "idle"
    /\ irq_enabled' = [irq_enabled EXCEPT ![0] = TRUE]
    /\ UNCHANGED <<irq_cpu, hsec>>

NextLock ==
    \/ init
    \/ lk_irq
    \/ lk_handler_lock
    \/ lk_check_status
    \/ lk_is_shifted
    \/ lk_is_capslock
    \/ lk_write
    \/ lk_getchar_call
    \/ lk_getchar_lock
    \/ lk_getchar

SpecLock == InitLock /\ [][NextLock]_vars

\* A CPU inside a critical section keeps executing, so each section ends
\* (weak fairness); a CPU spinning in lock() retries for ever, so it takes
\* the lock if the lock is free again and again (strong fairness).  Nothing
\* obliges the consumer to call getchar or the keyboard to send scancodes.
FairLock ==
    /\ WF_vars(lk_check_status)
    /\ WF_vars(lk_is_shifted)
    /\ WF_vars(lk_is_capslock)
    /\ WF_vars(lk_write)
    /\ WF_vars(lk_getchar)
    /\ SF_vars(lk_handler_lock)
    /\ SF_vars(lk_getchar_lock)

SpecLive == InitLive /\ [][NextLock]_vars /\ FairLock

-----------------------------------------------------------------------------
(* Vocabulary of the properties *)

\* the unread units, oldest first
Unread(rb) ==
    [i \in 1..((rb.tail - rb.head + BUFFER_SIZE) % BUFFER_SIZE) |->
        rb.inner[(rb.head + i - 1) % BUFFER_SIZE]]

\* the units that did not arrive at a full buffer, in arrival order
Kept ==
    LET k == SelectSeq(decoded, LAMBDA d : ~d.full) IN
    [i \in 1..Len(k) |-> k[i].unit]

\* the most recent scancode of the set S in seq, 0 when there is none
LastEvent(seq, S) ==
    LET idx == {i \in 1..Len(seq) : seq[i] \in S} IN
    IF idx = {} THEN 0
    ELSE seq[CHOOSE i \in idx : \A j \in idx : j <= i]

CountOf(seq, x) == Cardinality({i \in 1..Len(seq) : seq[i] = x})

\* the table byte of a scancode under (shift_left or shift_right) xor caps
Selected(sc, l, r, caps) ==
    IF (l \/ r) # caps THEN KEY_MAP[sc + 1].ascii2 ELSE KEY_MAP[sc + 1].ascii1

\* a step of the interrupt handler (getchar and init leave pc alone)
HandlerStep == pc' # pc

\* a getchar call that changes the state
GetcharStep == pc' = pc /\ registered' = registered

\* the handler has applied the modifier update of every scancode received
Settled == pc # "check_status"

\* the physical keys, as the scancodes received tell
LeftShiftHeld == LastEvent(received, {LSHIFT_MAKE, LSHIFT_BREAK}) = LSHIFT_MAKE

RightShiftHeld == LastEvent(received, {RSHIFT_MAKE, RSHIFT_BREAK}) = RSHIFT_MAKE

CapsLockOn == CountOf(received, CAPS_MAKE) % 2 = 1

-----------------------------------------------------------------------------
(* Properties *)

\* C1: the units getchar has returned, followed by the units still unread,
\* are exactly the decoded units that did not arrive at a full buffer, in
\* arrival order: nothing is returned twice, reordered, invented or
\* overwritten, and only units that met a full buffer are missing.
C1_Order == Kept = returned \o Unread(KEYBOARD.buffer)

\* a unit was dropped at a full buffer, a later one was accepted after a
\* getchar made room, and the tail has wrapped around behind the head
C1_Witness ==
    /\ Len(decoded) > BUFFER_SIZE
    /\ decoded[BUFFER_SIZE].full
    /\ ~decoded[BUFFER_SIZE + 1].full
    /\ returned # <<>>
    /\ KEYBOARD.buffer.tail < KEYBOARD.buffer.head

\* C2: a scancode of the table whose selected byte is the sentinel 0 decodes
\* to None and buffers nothing, so no 0 is ever buffered or returned.
C2_SentinelIsNone ==
    /\ (pc = "write" /\ scancode \in 0..TABLE_LAST
          /\ Selected(scancode, KEYBOARD.is_shifted_l, KEYBOARD.is_shifted_r,
                      KEYBOARD.is_capslock) = 0)
       => c = None
    /\ \A i \in 1..Len(decoded) : decoded[i].unit # 0
    /\ ret # Some(0)

\* C3: decode selects the shifted byte exactly when (shift_left or
\* shift_right) xor caps_lock; with caps lock off the '1' key gives '!'
\* right after a shift make and '1' when no shift make preceded it.
C3_Selection ==
    /\ (pc = "write" /\ scancode \in 0..TABLE_LAST)
       => c = Some(Selected(scancode, KEYBOARD.is_shifted_l,
                            KEYBOARD.is_shifted_r, KEYBOARD.is_capslock))
    /\ (pc = "write" /\ scancode = 2 /\ ~CapsLockOn /\ Len(received) >= 2
          /\ received[Len(received) - 1] = LSHIFT_MAKE)
       => c = Some(33)
    /\ (pc = "write" /\ scancode = 2 /\ ~CapsLockOn
          /\ \A i \in 1..Len(received) :
                received[i] \notin {LSHIFT_MAKE, RSHIFT_MAKE})
       => c = Some(49)

\* the '1' key decoded to '!' under shift, and to '1' under shift with caps
C3_Witness ==
    /\ pc = "write"
    /\ scancode = 2
    /\ \/ c = Some(33) /\ KEYBOARD.is_shifted_l /\ ~KEYBOARD.is_capslock
       \/ c = Some(49) /\ KEYBOARD.is_shifted_l /\ KEYBOARD.is_capslock

\* the digit and punctuation keys of the table
NonAlphaCodes == (2..13) \cup {26, 27, 39, 40, 41, 43, 51, 52, 53}

\* C4: caps lock does not change what a digit or punctuation key decodes
\* to: the unit is the one decoded with caps lock off under the same shift
\* state.
C4_CapsOnlyLetters ==
    (pc = "write" /\ scancode \in NonAlphaCodes)
    => c = Some(Selected(scancode, KEYBOARD.is_shifted_l,
                         KEYBOARD.is_shifted_r, FALSE))

\* C5: the right-shift latch is true exactly when the most recent
\* right-shift event was the make code 0x36.
C5_RightShiftLatch == Settled => (KEYBOARD.is_shifted_r <=> RightShiftHeld)

\* C6: the left-shift latch is true exactly when the most recent left-shift
\* event was the make code 0x2A; after 0x2A then 0xAA, with right shift not
\* held and caps lock off, a printable make code decodes to its unshifted
\* byte.
C6_LeftShiftLatch ==
    /\ Settled => (KEYBOARD.is_shifted_l <=> LeftShiftHeld)
    /\ (pc = "write" /\ scancode \in 0..TABLE_LAST
          /\ KEY_MAP[scancode + 1].ascii1 # 0
          /\ LSHIFT_MAKE \in {received[i] : i \in 1..Len(received)}
          /\ LastEvent(received, {LSHIFT_MAKE, LSHIFT_BREAK}) = LSHIFT_BREAK
          /\ ~RightShiftHeld /\ ~CapsLockOn)
       => c = Some(KEY_MAP[scancode + 1].ascii1)

\* C7: caps_lock changes in a step exactly when that step is the modifier
\* update of an interrupt that delivered 0x3A, and it is the parity of the
\* number of 0x3A scancodes received since startup.
C7_CapsToggle ==
    [][/\ (KEYBOARD'.is_capslock # KEYBOARD.is_capslock)
          <=> (pc = "check_status" /\ HandlerStep /\ scancode = CAPS_MAKE)
       /\ Settled' => (KEYBOARD'.is_capslock <=> CapsLockOn')]_vars

\* caps lock stayed on over its break code
C7_Witness ==
    /\ pc = "idle"
    /\ Len(received) >= 2
    /\ received[Len(received)] = CAPS_BREAK
    /\ received[Len(received) - 1] = CAPS_MAKE
    /\ KEYBOARD.is_capslock

C9_OnlyPrintable ==
    [][(HandlerStep /\ pc # "idle")
         => /\ (scancode >= 128
                  /\ scancode \notin {LSHIFT_BREAK, RSHIFT_BREAK, CAPS_BREAK})
               => KEYBOARD'.buffer = KEYBOARD.buffer
            /\ KEYBOARD'.buffer # KEYBOARD.buffer
               => /\ scancode \in 0..TABLE_LAST
                  /\ Selected(scancode, KEYBOARD.is_shifted_l,
                              KEYBOARD.is_shifted_r, KEYBOARD.is_capslock) # 0]_vars

\* C10: getchar on an empty buffer returns None and leaves head, tail, the
\* stored contents and the latches unchanged, and it returns None from
\* startup until the first unit is buffered.
C10_EmptyGetchar ==
    [][/\ (GetcharStep /\ KEYBOARD.buffer.head = KEYBOARD.buffer.tail)
          => (ret' = None /\ KEYBOARD' = KEYBOARD)
       /\ decoded' = <<>> => (ret' = None /\ returned' = <<>>)]_vars

\* getchar drained the buffer and then returned None on the empty buffer
C10_Witness ==
    /\ returned # <<>>
    /\ ret = None
    /\ KEYBOARD.buffer.head = KEYBOARD.buffer.tail
    /\ KEYBOARD.buffer.head # 0


\* C11: the handler never runs on the CPU of a getchar that has entered
\* lock(), interrupts are masked on a CPU for as long as it holds the lock,
\* nobody waits for a lock whose holder it has preempted, at most one
\* context is inside a critical section, and a context that is inside the
\* driver can always take a step or wait for one that can.
C11_NoSelfDeadlock ==
    /\ (pc # "idle" /\ irq_cpu = 0) => gpc = "idle"
    /\ gpc = "locked" => ~irq_enabled[0]
    /\ pc # "idle" => ~irq_enabled[irq_cpu]
    /\ ~(hsec /\ gpc = "locked")
    /\ locked <=> (hsec \/ gpc = "locked")
    /\ (pc # "idle" /\ ~hsec /\ locked) => ConsumerRuns
    /\ (pc # "idle" \/ gpc # "idle") => ENABLED NextLock

\* the handler on the other CPU waits for the lock getchar holds, or the
\* interrupt is held off on CPU 0 while getchar holds the lock
C11_Witness ==
    /\ gpc = "locked"
    /\ \/ pc = "check_status" /\ irq_cpu = 1 /\ ~hsec
       \/ pc = "idle" /\ registered /\ pending # <<>> /\ ~irq_enabled[0]


\* C12: every getchar call that has started returns, and every interrupt
\* callback that has started returns, whatever the buffer holds.
C12_NonBlocking ==
    /\ (gpc # "idle") ~> (gpc = "idle")
    /\ (pc # "idle") ~> (pc = "idle")

\* the handler returned from a write to the full buffer, and getchar
\* returned None on the drained buffer with no scancode left to come
C12_Witness ==
    /\ Len(decoded) = BUFFER_SIZE
    /\ decoded[BUFFER_SIZE].full
    /\ pc = "idle"
    /\ pending = <<>>
    /\ gpc = "idle"
    /\ ret = None
    /\ Len(returned) = BUFFER_SIZE - 1


C14_FillDrain ==
    [][/\ \A i \in 1..Len(decoded') : ~decoded'[i].full
       /\ GetcharStep
          => ret' = IF Len(returned) < Len(decoded)
                    THEN Some(decoded[Len(returned) + 1].unit)
                    ELSE None]_vars

\* 127 units written from index 127 across the wrap, all 127 read, and the
\* 128th read has returned None
C14_Witness ==
    /\ pending = <<>>
    /\ pc = "idle"
    /\ Len(decoded) = 2 * (BUFFER_SIZE - 1)
    /\ Len(returned) = Len(decoded)
    /\ KEYBOARD.buffer.head = BUFFER_SIZE - 2
    /\ KEYBOARD.buffer.tail = KEYBOARD.buffer.head
    /\ ret = None


\* C15: a write to a full buffer changes nothing; a write to a buffer that
\* is not full stores the unit at the old tail and advances tail by one
\* modulo 128, and changes nothing else; while nothing has been read, the
\* units refused are exactly those from the 128th on; and every read
\* returns the next unit that was not refused, or None when none is left.
C15_FullWriteDropped ==
    [][/\ (pc = "write" /\ HandlerStep /\ c # None)
          => LET rb == KEYBOARD.buffer IN
             IF IsFull(rb)
             THEN KEYBOARD' = KEYBOARD
             ELSE KEYBOARD' =
                    [KEYBOARD EXCEPT
                       !.buffer.inner[rb.tail] = c[1],
                       !.buffer.tail = (rb.tail + 1) % BUFFER_SIZE]
       /\ (returned' = <<>> /\ ret' = None)
          => \A i \in 1..Len(decoded') :
                decoded'[i].full <=> i >= BUFFER_SIZE
       /\ GetcharStep
          => ret' = IF Len(returned) < Len(Kept)
                    THEN Some(Kept[Len(returned) + 1])
                    ELSE None]_vars

\* 129 units written with no read before the last, the 128th and the 129th
\* refused, then 127 units read and the 128th read has returned None
C15_Witness ==
    /\ pending = <<>>
    /\ pc = "idle"
    /\ Len(decoded) = BUFFER_SIZE + 1
    /\ decoded[BUFFER_SIZE].full
    /\ decoded[BUFFER_SIZE + 1].full
    /\ returned = [i \in 1..(BUFFER_SIZE - 1) |-> decoded[i].unit]
    /\ ret = None


\* C16: the number of units buffered and not yet read is (tail - head) mod
\* 128 and at most 127; it is 0 exactly when head = tail and 127 exactly
\* when (tail + 1) mod 128 = head; the two conditions never hold together.
C16_Occupancy ==
    LET rb == KEYBOARD.buffer
        n  == Len(Kept) - Len(returned)
    IN /\ n = (rb.tail - rb.head + BUFFER_SIZE) % BUFFER_SIZE
       /\ n <= BUFFER_SIZE - 1
       /\ n = 0 <=> rb.head = rb.tail
       /\ n = BUFFER_SIZE - 1 <=> IsFull(rb)
       /\ ~(rb.head = rb.tail /\ IsFull(rb))

\* a full buffer whose tail has wrapped around behind its head
C16_Witness ==
    /\ KEYBOARD.buffer.head = 2
    /\ KEYBOARD.buffer.tail = 1
    /\ Len(Kept) = BUFFER_SIZE + 1
    /\ Len(returned) = 2

\* C17: the run in which every callback is one critical section, taken at
\* the moment of the callback's write section, with the same getchar calls,
\* has the same buffer and the same getchar results at every moment and the
\* same modifier latches whenever no callback is under way.
C17_CallbackAtomic ==
    /\ seq_KEYBOARD.buffer = KEYBOARD.buffer
    /\ seq_ret = ret
    /\ pc = "idle" => seq_KEYBOARD = KEYBOARD

\* the left-shift make is between its update and its write: the latch is
\* set, the one-section run has not set it yet, and getchar has returned
\* the 'a' typed before
C17_Witness ==
    /\ received = <<30, LSHIFT_MAKE>>
    /\ pc = "write"
    /\ returned = <<97>>
    /\ ret = Some(97)
    /\ KEYBOARD.is_shifted_l
    /\ ~seq_KEYBOARD.is_shifted_l


\* C18: every unit accepted into the buffer is eventually returned by
\* getchar, whatever arrives in between: the units accepted so far are
\* those returned and those in the buffer, and when there are n of them, n
\* units are eventually returned.  A decoded unit is accepted exactly when
\* fewer than 127 accepted units are unread, so the unit that follows a
\* getchar on a full buffer is accepted.
C18_Delivered ==
    /\ [][/\ (pc = "write" /\ HandlerStep /\ c # None)
             => (KEYBOARD'.buffer.tail # KEYBOARD.buffer.tail
                 <=> Len(Kept) - Len(returned) < BUFFER_SIZE - 1)
          /\ Len(Kept') = Len(returned') + Len(Unread(KEYBOARD'.buffer))]_vars
    /\ \A n \in 1..(BUFFER_SIZE + 1) :
          (Len(returned) + Len(Unread(KEYBOARD.buffer)) >= n)
              ~> (Len(returned) >= n)

\* the buffer was full, getchar took units out, the 128th unit was then
\* accepted, and all 128 have been returned
C18_Witness ==
    /\ Len(decoded) = BUFFER_SIZE
    /\ ~decoded[BUFFER_SIZE].full
    /\ Len(returned) = BUFFER_SIZE
    /\ returned[BUFFER_SIZE] = 97
    /\ pending = <<>>


\* C19: getchar changes nothing of the keyboard but head; a step of the
\* interrupt callback leaves head alone and leaves every slot alone except
\* the one at the old tail.
C19_DisjointFrames ==
    [][/\ GetcharStep
          => KEYBOARD' =
               [KEYBOARD EXCEPT !.buffer.head = KEYBOARD'.buffer.head]
       /\ HandlerStep
          => /\ KEYBOARD'.buffer.head = KEYBOARD.buffer.head
             /\ \A i \in 0..(BUFFER_SIZE - 1) :
                   i # KEYBOARD.buffer.tail
                   => KEYBOARD'.buffer.inner[i] = KEYBOARD.buffer.inner[i]]_vars

\* the callback has set a latch and written two slots, getchar has moved
\* head past the first
C19_Witness ==
    /\ received = <<LSHIFT_MAKE, 30>>
    /\ pc = "idle"
    /\ KEYBOARD.is_shifted_l
    /\ KEYBOARD.buffer.head = 1
    /\ KEYBOARD.buffer.tail = 2
    /\ KEYBOARD.buffer.inner[1] = 65
    /\ ret = Some(0)


\* C20: head and tail are indexes of the 128 slots in every state, and
\* every index decode has used into KEY_MAP is one of its 94 entries,
\* 0x00 .. 0x5D, whatever the scancode byte.
C20_InBounds ==
    /\ DOMAIN KEYBOARD.buffer.inner = 0..(BUFFER_SIZE - 1)
    /\ KEYBOARD.buffer.head \in DOMAIN KEYBOARD.buffer.inner
    /\ KEYBOARD.buffer.tail \in DOMAIN KEYBOARD.buffer.inner
    /\ Len(KEY_MAP) = TABLE_LAST + 1
    /\ \A i \in indexed : i + 1 \in DOMAIN KEY_MAP

\* head and tail have gone around the buffer and are back at slot 0, the
\* last entry of KEY_MAP has been indexed, and the first byte beyond the
\* table has been decoded to None
C20_Witness ==
    /\ received = Burst(BUFFER_SIZE - 1) \o <<TABLE_LAST, TABLE_LAST + 1>>
    /\ pc = "write"
    /\ c = None
    /\ TABLE_LAST \in indexed
    /\ Len(returned) = BUFFER_SIZE
    /\ KEYBOARD.buffer.head = 0
    /\ KEYBOARD.buffer.tail = 0

====
